---- MODULE Spec2Model ----
(***************************************************************************)
(* Model of src/app.py: ResearchAssistantAgent, a LangGraph workflow       *)
(* planner -> searcher -> analyzer -> reporter compiled with a MemorySaver *)
(* checkpointer, and research(), which invokes it under a thread id taken  *)
(* from the wall clock.                                                    *)
(*                                                                         *)
(* Library behaviour the source relies on, as modelled here:               *)
(*  - add_messages (the reducer of AgentState.messages) merges by message  *)
(*    id: a message without id gets a fresh one (assigned in place on the  *)
(*    message object), a message whose id is already in the list replaces  *)
(*    that entry in place, any other message is appended.                  *)
(*  - the other AgentState channels are last-value channels (overwrite).   *)
(*  - MemorySaver keeps every checkpoint that is put, per thread id;       *)
(*    reading a thread returns the checkpoint put last.                    *)
(*  - invoke(input, config) starts from the latest checkpoint of the       *)
(*    thread (if any), merges the input, and walks the graph; a node that  *)
(*    raises ends the walk and the exception leaves invoke.                *)
(***************************************************************************)
EXTENDS Integers, Sequences, FiniteSets, TLC

\* ------------------------------------------------------------------ bounds
\* The invocations of research() that are modelled (two, possibly concurrent).
Runs == {1, 2}

\* Wall-clock readings range over 0..MaxClock.
MaxClock == 1

\* Longest list the search capability returns in the model.
MaxResults == 2

\* Largest number of entries in a state / a partial update of the merge laboratory.
MaxMsgs == 2

Queries == {"q1", "q2"}

\* What the search tool can return in its list: a result dict with just the
\* keys title, content, url ("r1"), a result dict with more keys than those
\* ("r2x", whose title, content, url are the record "r2"), and an element
\* that is not a dict.
Items == {"r1", "r2x", "nd"}

\* Texts a completion can carry when the report is asked for; the empty text
\* is one of them.
Texts == {"", "T1"}

\* Texts a completion can carry when the plan is asked for (the plan is only
\* carried along in messages, never read).
PlanTexts == {"T1"}

LLM_ERROR == "E_llm"
SEARCH_ERROR == "E_search"

Order == <<"planner", "searcher", "analyzer", "reporter">>

VARIABLES
    clock,      \* the wall clock read by datetime.now()
    pc,         \* pc[r]: where invocation r of research() stands
    query,      \* query[r]: the argument of research()
    tid,        \* tid[r]: the thread id of the run (-1 before it is chosen)
    state,      \* state[r]: the channel values the executor of run r holds
    step,       \* step[r]: the step number of the run's last checkpoint
    uid,        \* uid[r]: how many fresh message ids run r has drawn
    invoked,    \* invoked[r]: the node handlers invoked so far, in order
    llm_calls,  \* llm_calls[r]: the prompts given to self.llm.invoke
    search_calls,  \* search_calls[r]: what self.search_tool.invoke did, per call
    err,        \* err[r]: the exception that left workflow.invoke ("" if none)
    result,     \* result[r]: what research() returned
    store,      \* the MemorySaver: per thread id, every checkpoint put
    ms, mp, mby, mr, mr2, mphase   \* the merge laboratory (see MergeSpec)

vars == <<clock, pc, query, tid, state, step, uid, invoked, llm_calls, search_calls, err,
          result, store, ms, mp, mby, mr, mr2, mphase>>

runvars == <<clock, pc, query, tid, state, step, uid, invoked, llm_calls, search_calls, err,
             result, store>>

labvars == <<ms, mp, mby, mr, mr2, mphase>>

\* ------------------------------------------------------------ small helpers
Min(a, b) == IF a < b THEN a ELSE b

Range(s) == {s[i] : i \in 1..Len(s)}

SeqsUpTo(S, n) == UNION {[1..k -> S] : k \in 0..n}

\* The sequences over S of length at most n that repeat no element.
DistinctSeqsUpTo(S, n) ==
    {s \in SeqsUpTo(S, n) : \A i, j \in 1..Len(s) : s[i] = s[j] => i = j}

IsPrefix(s, t) == Len(s) <= Len(t) /\ SubSeq(t, 1, Len(s)) = s

\* ---------------------------------------------------------------- messages
\* A message: id (0 stands for None), type, and its content split in
\* kind / text / n (the count quoted by the search summary).
Msg(i, ty, k, t, c) == [id |-> i, type |-> ty, kind |-> k, text |-> t, n |-> c]

HumanMessage(q) == Msg(0, "human", "query", q, 0)

AIMessage(k, t, c) == Msg(0, "ai", k, t, c)

\* Ids are fresh: run r draws r*10+1, r*10+2, ...
FreshId(r, k) == r * 10 + k

\* ------------------------------------------------------------- state model
\* analysis == {} (the initial value, and content_analyzer's empty result)
EmptyAnalysis == [present |-> FALSE, topic |-> "", content |-> <<>>]

Channels == {"messages", "research_query", "search_results", "analysis", "final_report"}

OverwriteChannels == Channels \ {"messages"}

\* The channel values of a thread that has no checkpoint yet.
EmptyChannels ==
    [messages |-> <<>>, research_query |-> "", search_results |-> <<>>,
     analysis |-> EmptyAnalysis, final_report |-> ""]

\* A partial update: the channels it writes (keys) and their values; the
\* value of a channel that is not in keys is never read.
Partial(ks, m, q, sr, an, rep) ==
    [keys |-> ks, messages |-> m, research_query |-> q, search_results |-> sr,
     analysis |-> an, final_report |-> rep]

NoneCount(s) == Cardinality({i \in 1..Len(s) : s[i].id = 0})

\* add_messages, "assign missing ids": the k-th message without id gets base+k.
AssignIds(s, base) ==
    [i \in 1..Len(s) |->
        IF s[i].id = 0
        THEN [s[i] EXCEPT !.id = base + NoneCount(SubSeq(s, 1, i))]
        ELSE s[i]]

\* Upsert, but the id is never looked up.
UpsertAlwaysAppends(merged, m) == Append(merged, m)

\* add_messages, one turn of the merge loop: replace the entry with the same
\* id in place, or append.
Upsert(merged, m) ==
    IF \E i \in 1..Len(merged) : merged[i].id = m.id
    THEN LET idx == CHOOSE i \in 1..Len(merged) :
                        /\ merged[i].id = m.id
                        /\ \A j \in 1..Len(merged) : merged[j].id = m.id => j <= i
         IN  [merged EXCEPT ![idx] = m]
    ELSE Append(merged, m)

RECURSIVE MergeById(_, _)
MergeById(merged, right) ==
    IF right = <<>> THEN merged
    ELSE MergeById(Upsert(merged, Head(right)), Tail(right))

\* add_messages, but messages is treated like the other channels.
add_messages_Overwrite(left, right, base) == AssignIds(right, base)

\* langgraph.graph.message.add_messages(left, right); base is the source of
\* fresh ids (uuid4).
add_messages(left, right, base) ==
    MergeById(AssignIds(left, base),
              AssignIds(right, base + NoneCount(left)))

\* merge, but the new state is built from the update alone: a channel the
\* update does not name falls back to its initial value.
mergeDropsAbsent(s, p, base) ==
    [messages       |-> IF "messages" \in p.keys
                        THEN add_messages(s.messages, p.messages, base)
                        ELSE s.messages,
     research_query |-> IF "research_query" \in p.keys
                        THEN p.research_query ELSE "",
     search_results |-> IF "search_results" \in p.keys
                        THEN p.search_results ELSE <<>>,
     analysis       |-> IF "analysis" \in p.keys
                        THEN p.analysis ELSE EmptyAnalysis,
     final_report   |-> IF "final_report" \in p.keys
                        THEN p.final_report ELSE ""]

\* The update of the AgentState channels by one partial update: messages
\* through its reducer add_messages, every other channel by overwrite, a
\* channel that the update does not name untouched.
merge(s, p, base) ==
    [messages       |-> IF "messages" \in p.keys
                        THEN add_messages(s.messages, p.messages, base)
                        ELSE s.messages,
     research_query |-> IF "research_query" \in p.keys
                        THEN p.research_query ELSE s.research_query,
     search_results |-> IF "search_results" \in p.keys
                        THEN p.search_results ELSE s.search_results,
     analysis       |-> IF "analysis" \in p.keys
                        THEN p.analysis ELSE s.analysis,
     final_report   |-> IF "final_report" \in p.keys
                        THEN p.final_report ELSE s.final_report]

\* The partial update as the caller holds it after the merge: add_messages
\* wrote the fresh ids into the message objects of the update.
Mutated(p, base, left) ==
    IF "messages" \in p.keys
    THEN [p EXCEPT !.messages = AssignIds(p.messages, base + NoneCount(left))]
    ELSE p

\* ---------------------------------------------------------- node handlers
\* What self.llm.invoke can do: return a message with text t, or raise.
LlmOutcomes(texts) ==
    [ok : {TRUE}, text : texts] \cup {[ok |-> FALSE, text |-> LLM_ERROR]}

\* What self.search_tool.invoke can do: return a list, or raise.  A list
\* that is returned holds result dicts, or (when the tool hands back an error
\* text in place of a list) elements none of which is a dict.
SearchOutcomes ==
    [ok : {TRUE},
     results : {s \in DistinctSeqsUpTo(Items, MaxResults) :
                  \/ \A i \in 1..Len(s) : s[i] # "nd"
                  \/ \A i \in 1..Len(s) : s[i] = "nd"}]
        \cup {[ok |-> FALSE, results |-> <<>>]}

IsDict(x) == x # "nd"

\* {"title": result.get("title", ""), "content": ..., "url": ...}
Format(x) == IF x = "r2x" THEN "r2" ELSE x

\* FormatResults, but every new record is put in front of the list.
FormatResultsReversed(results) ==
    [i \in 1..Len(SelectSeq(results, IsDict)) |->
        Format(SelectSeq(results, IsDict)[Len(SelectSeq(results, IsDict)) + 1 - i])]

\* The loop over search_results: the dicts, formatted, in their order.
FormatResults(results) ==
    [i \in 1..Len(SelectSeq(results, IsDict)) |-> Format(SelectSeq(results, IsDict)[i])]

\* The message a completion returns; the chat model gives it an id of its own.
LlmResponse(i, t) == Msg(i, "ai", "llm", t, 0)

\* next((msg.content for msg in messages if isinstance(msg, HumanMessage)), "")
FirstHuman(messages) ==
    IF \E i \in 1..Len(messages) : messages[i].type = "human"
    THEN LET k == CHOOSE i \in 1..Len(messages) :
                      /\ messages[i].type = "human"
                      /\ \A j \in 1..Len(messages) : messages[j].type = "human" => i <= j
         IN  messages[k].text
    ELSE ""

research_planner(st, response) ==
    Partial({"messages", "research_query"}, <<response>>,
            FirstHuman(st.messages), <<>>, EmptyAnalysis, "")

web_searcher(st, out) ==
    IF out.ok
    THEN LET formatted_results == FormatResults(out.results)
         IN  Partial({"messages", "search_results"},
                     <<AIMessage("found", st.research_query, Len(formatted_results))>>,
                     "", formatted_results, EmptyAnalysis, "")
    ELSE Partial({"messages", "search_results"},
                 <<AIMessage("search_error", SEARCH_ERROR, 0)>>,
                 "", <<>>, EmptyAnalysis, "")

\* analyze_research_content: the record built from the combined content and
\* the topic (its timestamp is left out).
analyze_research_content(content, topic) ==
    [present |-> TRUE, topic |-> topic, content |-> content]

\* content_analyzer, but the analysis tool is never run.
content_analyzer_AlwaysEmpty(st) ==
    Partial({"messages", "analysis"}, <<AIMessage("no_results", "", 0)>>,
            "", <<>>, EmptyAnalysis, "")

\* content_analyzer, but the analysis tool is run even on no results at all.
content_analyzer_NoEmptyCase(st) ==
    Partial({"messages", "analysis"}, <<AIMessage("analysis_done", "", 0)>>,
            "", <<>>,
            analyze_research_content(st.search_results, st.research_query), "")

content_analyzer(st) ==
    IF st.search_results = <<>>
    THEN Partial({"messages", "analysis"}, <<AIMessage("no_results", "", 0)>>,
                 "", <<>>, EmptyAnalysis, "")
    ELSE Partial({"messages", "analysis"}, <<AIMessage("analysis_done", "", 0)>>,
                 "", <<>>,
                 analyze_research_content(st.search_results, st.research_query), "")

\* search_results[:3]
TopResults == 3

\* The prompt report_generator composes.
ReportPrompt(st) ==
    [by |-> "reporter", query |-> st.research_query,
     search_summary |-> SubSeq(st.search_results, 1,
                               Min(TopResults, Len(st.search_results))),
     analysis |-> st.analysis]

\* The prompt research_planner composes: the system message and the messages.
PlanPrompt(st) ==
    [by |-> "planner", query |-> FirstHuman(st.messages),
     search_summary |-> <<>>, analysis |-> EmptyAnalysis]

\* report_generator, but final_report is not taken from the response.
report_generator_KeepsOldReport(st, response) ==
    Partial({"messages", "final_report"}, <<response>>,
            "", <<>>, EmptyAnalysis, st.final_report)

report_generator(st, response) ==
    Partial({"messages", "final_report"}, <<response>>,
            "", <<>>, EmptyAnalysis, response.text)

\* ------------------------------------------------------- checkpoint store
\* MemorySaver.storage: per thread id, the checkpoints put (a dict by
\* checkpoint id: no checkpoint is ever removed), and which of them is the
\* latest (the one with the greatest checkpoint id, <<>> while there is none).
ThreadIds == 0..MaxClock

Checkpoint(t, values, n, node) ==
    [thread_id |-> t, values |-> values, step |-> n, node |-> node]

EmptyStore == [t \in ThreadIds |-> [all |-> {}, last |-> <<>>]]

\* put, but the thread keeps only the checkpoint put last.
putOverwrites(st, t, values, n, node) ==
    [st EXCEPT ![t] = [all  |-> {Checkpoint(t, values, n, node)},
                       last |-> <<Checkpoint(t, values, n, node)>>]]

\* put, but the checkpoint is filed under every thread id.
putIgnoresThread(st, t, values, n, node) ==
    [t2 \in ThreadIds |->
        [all  |-> st[t2].all \cup {Checkpoint(t, values, n, node)},
         last |-> <<Checkpoint(t, values, n, node)>>]]

put(st, t, values, n, node) ==
    [st EXCEPT ![t] = [all  |-> @.all \cup {Checkpoint(t, values, n, node)},
                       last |-> <<Checkpoint(t, values, n, node)>>]]

\* The checkpoints of thread t.
list(st, t) == st[t].all

has(st, t) == st[t].last # <<>>

\* get_tuple for a config that names only the thread: the latest checkpoint.
get(st, t) == st[t].last[1]

\* ------------------------------------------------------------- research()
initial_state(q) ==
    Partial(Channels, <<HumanMessage(q)>>, q, <<>>, EmptyAnalysis, "")

NoResult ==
    [keys |-> {}, error |-> "", messages |-> <<>>, research_query |-> "",
     search_results |-> <<>>, analysis |-> EmptyAnalysis, final_report |-> ""]

\* "Error occurred during research: {str(e)}"
ErrorReport(e) == IF e = LLM_ERROR THEN "Error occurred during research: E_llm"
                  ELSE "Error occurred during research"

\* return final_state
FinalResult(st) ==
    [keys |-> Channels, error |-> "", messages |-> st.messages,
     research_query |-> st.research_query, search_results |-> st.search_results,
     analysis |-> st.analysis, final_report |-> st.final_report]

\* the dict built in the except branch
ErrorResult(e) ==
    [keys |-> {"error", "messages", "final_report"}, error |-> e,
     messages |-> <<AIMessage("research_failed", e, 0)>>, research_query |-> "",
     search_results |-> <<>>, analysis |-> EmptyAnalysis,
     final_report |-> ErrorReport(e)]

\* ------------------------------------------------------------------- Init
LabIdle ==
    /\ ms = EmptyChannels
    /\ mp = Partial({}, <<>>, "", <<>>, EmptyAnalysis, "")
    /\ mby = "none"
    /\ mr = EmptyChannels
    /\ mr2 = EmptyChannels
    /\ mphase = "off"

RunsIdle ==
    /\ clock = 0
    /\ pc = [r \in Runs |-> "idle"]
    /\ query = [r \in Runs |-> ""]
    /\ tid = [r \in Runs |-> -1]
    /\ state = [r \in Runs |-> EmptyChannels]
    /\ step = [r \in Runs |-> -1]
    /\ uid = [r \in Runs |-> 0]
    /\ invoked = [r \in Runs |-> <<>>]
    /\ llm_calls = [r \in Runs |-> <<>>]
    /\ search_calls = [r \in Runs |-> <<>>]
    /\ err = [r \in Runs |-> ""]
    /\ result = [r \in Runs |-> NoResult]
    /\ store = EmptyStore

Init == RunsIdle /\ LabIdle

\* ---------------------------------------------------------------- actions
\* Time passes.
Tick ==
    /\ clock < MaxClock
    /\ clock' = clock + 1
    /\ UNCHANGED <<pc, query, tid, state, step, uid, invoked, llm_calls, search_calls, err,
                   result, store>>
    /\ UNCHANGED labvars

\* research(query) up to the first node: the initial state, the thread id
\* from the clock, and the start of workflow.invoke, which takes the latest
\* checkpoint of the thread (if there is one), merges the input into it and
\* saves the input checkpoint.
StartRun(r) ==
    /\ pc[r] = "idle"
    /\ \E q \in Queries :
        LET t      == clock
            loaded == IF has(store, t) THEN get(store, t).values ELSE EmptyChannels
            n      == IF has(store, t) THEN get(store, t).step + 1 ELSE 0
            st     == merge(loaded, initial_state(q), FreshId(r, uid[r]))
        IN  /\ query' = [query EXCEPT ![r] = q]
            /\ tid' = [tid EXCEPT ![r] = t]
            /\ state' = [state EXCEPT ![r] = st]
            /\ step' = [step EXCEPT ![r] = n]
            /\ uid' = [uid EXCEPT ![r] = @ + 1]
            /\ store' = put(store, t, st, n, "input")
    /\ pc' = [pc EXCEPT ![r] = "planner"]
    /\ UNCHANGED <<clock, invoked, llm_calls, search_calls, err, result>>
    /\ UNCHANGED labvars

\* The executor commits the partial update of a node: merge, checkpoint,
\* advance along the edge.
Commit(r, node, partial, next) ==
    LET st == merge(state[r], partial, FreshId(r, uid[r]))
    IN  /\ state' = [state EXCEPT ![r] = st]
        /\ step' = [step EXCEPT ![r] = @ + 1]
        /\ uid' = [uid EXCEPT ![r] = @ + 1]
        /\ store' = put(store, tid[r], st, step[r] + 1, node)
        /\ pc' = [pc EXCEPT ![r] = next]
        /\ UNCHANGED err

\* Halt, but the failing node's error is merged and saved as a checkpoint.
HaltSavesState(r, e) ==
    LET st == merge(state[r],
                    Partial({"messages"}, <<AIMessage("node_error", e, 0)>>,
                            "", <<>>, EmptyAnalysis, ""),
                    FreshId(r, uid[r]))
    IN  /\ err' = [err EXCEPT ![r] = e]
        /\ pc' = [pc EXCEPT ![r] = "halted"]
        /\ state' = [state EXCEPT ![r] = st]
        /\ step' = [step EXCEPT ![r] = @ + 1]
        /\ uid' = [uid EXCEPT ![r] = @ + 1]
        /\ store' = put(store, tid[r], st, step[r] + 1, "error")

\* A node raised: the walk ends, nothing is merged and nothing is saved.
Halt(r, e) ==
    /\ err' = [err EXCEPT ![r] = e]
    /\ pc' = [pc EXCEPT ![r] = "halted"]
    /\ UNCHANGED <<state, step, uid, store>>

Planner(r) ==
    /\ pc[r] = "planner"
    /\ invoked' = [invoked EXCEPT ![r] = Append(@, "planner")]
    /\ llm_calls' = [llm_calls EXCEPT ![r] = Append(@, PlanPrompt(state[r]))]
    /\ \E out \in LlmOutcomes(PlanTexts) :
        IF out.ok
        THEN Commit(r, "planner",
                    research_planner(state[r],
                                     LlmResponse(FreshId(r, uid[r] + 1), out.text)),
                    "searcher")
        ELSE Halt(r, out.text)
    /\ UNCHANGED <<clock, query, tid, search_calls, result>>
    /\ UNCHANGED labvars

\* Searcher, but a search that found nothing sends the walk straight to the
\* reporter.
SearcherSkipsAnalyzer(r) ==
    /\ pc[r] = "searcher"
    /\ invoked' = [invoked EXCEPT ![r] = Append(@, "searcher")]
    /\ \E out \in SearchOutcomes :
        /\ search_calls' = [search_calls EXCEPT ![r] = Append(@, out)]
        /\ Commit(r, "searcher", web_searcher(state[r], out),
                  IF web_searcher(state[r], out).search_results = <<>>
                  THEN "reporter" ELSE "analyzer")
    /\ UNCHANGED <<clock, query, tid, llm_calls, result>>
    /\ UNCHANGED labvars

Searcher(r) ==
    /\ pc[r] = "searcher"
    /\ invoked' = [invoked EXCEPT ![r] = Append(@, "searcher")]
    /\ \E out \in SearchOutcomes :
        /\ search_calls' = [search_calls EXCEPT ![r] = Append(@, out)]
        /\ Commit(r, "searcher", web_searcher(state[r], out), "analyzer")
    /\ UNCHANGED <<clock, query, tid, llm_calls, result>>
    /\ UNCHANGED labvars

Analyzer(r) ==
    /\ pc[r] = "analyzer"
    /\ invoked' = [invoked EXCEPT ![r] = Append(@, "analyzer")]
    /\ Commit(r, "analyzer", content_analyzer(state[r]), "reporter")
    /\ UNCHANGED <<clock, query, tid, llm_calls, search_calls, result>>
    /\ UNCHANGED labvars

Reporter(r) ==
    /\ pc[r] = "reporter"
    /\ invoked' = [invoked EXCEPT ![r] = Append(@, "reporter")]
    /\ llm_calls' = [llm_calls EXCEPT ![r] = Append(@, ReportPrompt(state[r]))]
    /\ \E out \in LlmOutcomes(Texts) :
        IF out.ok
        THEN Commit(r, "reporter",
                    report_generator(state[r],
                                     LlmResponse(FreshId(r, uid[r] + 1), out.text)),
                    "end")
        ELSE Halt(r, out.text)
    /\ UNCHANGED <<clock, query, tid, search_calls, result>>
    /\ UNCHANGED labvars

\* Return, but an exception of workflow.invoke is not caught.
ReturnOnlyOnSuccess(r) ==
    /\ pc[r] = "end"
    /\ result' = [result EXCEPT ![r] = FinalResult(state[r])]
    /\ pc' = [pc EXCEPT ![r] = "returned"]
    /\ UNCHANGED <<clock, query, tid, state, step, uid, invoked, llm_calls,
                   search_calls, err, store>>
    /\ UNCHANGED labvars

\* research() returns: the final state, or the dict of the except branch.
Return(r) ==
    /\ pc[r] \in {"end", "halted"}
    /\ result' = [result EXCEPT ![r] =
                    IF pc[r] = "end" THEN FinalResult(state[r])
                                     ELSE ErrorResult(err[r])]
    /\ pc' = [pc EXCEPT ![r] = "returned"]
    /\ UNCHANGED <<clock, query, tid, state, step, uid, invoked, llm_calls, search_calls, err,
                   store>>
    /\ UNCHANGED labvars

Next ==
    \/ Tick
    \/ \E r \in Runs : StartRun(r)
    \/ \E r \in Runs : Planner(r)
    \/ \E r \in Runs : Searcher(r)
    \/ \E r \in Runs : Analyzer(r)
    \/ \E r \in Runs : Reporter(r)
    \/ \E r \in Runs : Return(r)

Spec == Init /\ [][Next]_vars

\* A run that has started goes on: each node is run when the walk reaches
\* it (its capability call returns or fails), and research() returns when
\* workflow.invoke has ended.  Nothing obliges a caller to start a run, or
\* time to pass.
Fairness ==
    \A r \in Runs :
        /\ WF_vars(Planner(r))
        /\ WF_vars(Searcher(r))
        /\ WF_vars(Analyzer(r))
        /\ WF_vars(Reporter(r))
        /\ WF_vars(Return(r))

\* The invocations as main() makes them: research() is called in the button
\* handler and the next call is made only after the one before has returned.
SeqNext ==
    \/ Tick
    \/ \E r \in Runs :
          /\ \A r2 \in Runs : r2 < r => pc[r2] = "returned"
          /\ StartRun(r)
    \/ \E r \in Runs : Planner(r)
    \/ \E r \in Runs : Searcher(r)
    \/ \E r \in Runs : Analyzer(r)
    \/ \E r \in Runs : Reporter(r)
    \/ \E r \in Runs : Return(r)

SeqSpec == Init /\ [][SeqNext]_vars /\ Fairness

\* ------------------------------------------------------ merge laboratory
\* The state model on its own: a state ms and a partial update mp are drawn,
\* the update is applied once (mr) and then the same update once more (mr2).
\* mby tells where mp comes from: a node handler applied to ms, or "any".
LabIds == 1..MaxMsgs

LabMsg(i, t) == Msg(i, "ai", "lab", t, 0)

LabAnalysis == analyze_research_content(<<"r1">>, "q1")

\* States as the executor commits them: every message has an id, no id twice.
LabStates ==
    {[messages |-> m, research_query |-> "q1", search_results |-> <<"r1">>,
      analysis |-> LabAnalysis, final_report |-> "T1"] :
        m \in {[i \in 1..Len(x) |-> IF i = 1 THEN HumanMessage("q1") ELSE LabMsg(0, "old")]
                : x \in SeqsUpTo({0}, MaxMsgs)}}

\* The ids of a committed state are those add_messages gave out before.
Committed(s) == [s EXCEPT !.messages = [i \in 1..Len(@) |-> [@[i] EXCEPT !.id = i]]]

\* Partial updates of any shape: any set of channels, messages without id,
\* with an id the state has, or with an id it has not.
LabPartials ==
    {Partial(ks,
             IF "messages" \in ks THEN m ELSE <<>>,
             IF "research_query" \in ks THEN q ELSE "",
             IF "search_results" \in ks THEN sr ELSE <<>>,
             IF "analysis" \in ks THEN an ELSE EmptyAnalysis,
             IF "final_report" \in ks THEN rep ELSE "") :
        ks \in SUBSET Channels,
        m \in {[i \in 1..Len(x) |-> LabMsg(x[i], "new")]
                : x \in SeqsUpTo(0..(MaxMsgs + 1), MaxMsgs)},
        q \in {"q1", "q2"}, sr \in {<<"r1">>, <<>>},
        an \in {LabAnalysis, EmptyAnalysis}, rep \in {"T1", ""}}

\* The partial updates the four handlers return on state s.
HandlerPartials(s) ==
    [planner  |-> {research_planner(s, LlmResponse(FreshId(1, 1), t)) : t \in PlanTexts},
     searcher |-> {web_searcher(s, out) : out \in SearchOutcomes},
     analyzer |-> {content_analyzer(s)},
     reporter |-> {report_generator(s, LlmResponse(FreshId(1, 1), t)) : t \in Texts}]

MergeInit ==
    /\ RunsIdle
    /\ ms \in {Committed(s) : s \in LabStates}
    /\ mby \in {"any", "planner", "searcher", "analyzer", "reporter"}
    /\ mp \in IF mby = "any" THEN LabPartials ELSE HandlerPartials(ms)[mby]
    /\ mr = EmptyChannels
    /\ mr2 = EmptyChannels
    /\ mphase = "in"

\* merge(ms, mp)
MergeOnce ==
    /\ mphase = "in"
    /\ mr' = merge(ms, mp, FreshId(1, 0))
    /\ mphase' = "once"
    /\ UNCHANGED <<ms, mp, mby, mr2>>
    /\ UNCHANGED runvars

\* merge(merge(ms, mp), mp) with the very same update: its message objects
\* carry the ids the first merge wrote into them.
MergeTwice ==
    /\ mphase = "once"
    /\ mr2' = merge(mr, Mutated(mp, FreshId(1, 0), ms.messages), FreshId(2, 0))
    /\ mphase' = "twice"
    /\ UNCHANGED <<ms, mp, mby, mr>>
    /\ UNCHANGED runvars

\* merge(merge(ms, mp), mp2) where mp2 is an update built anew with the same
\* contents as mp (a message that had no id has none again).
MergeCopy ==
    /\ mphase = "once"
    /\ mr2' = merge(mr, mp, FreshId(2, 0))
    /\ mphase' = "copy"
    /\ UNCHANGED <<ms, mp, mby, mr>>
    /\ UNCHANGED runvars

MergeNext == MergeOnce \/ MergeTwice \/ MergeCopy

MergeSpec == MergeInit /\ [][MergeNext]_vars

\* ================================================================= claims
Started(r) == pc[r] # "idle"

Halted(r) == err[r] # ""

Returned(r) == pc[r] = "returned"

\* The search of run r was degraded: the searcher committed the absorbed
\* failure (its message is the last but for those of later nodes).
SearchFailed(r) ==
    /\ Len(invoked[r]) >= 2
    /\ pc[r] # "searcher"
    /\ \E i \in 1..Len(state[r].messages) :
          /\ state[r].messages[i].kind = "search_error"
          /\ state[r].messages[i].id > FreshId(r, 0)
          /\ state[r].messages[i].id < FreshId(r + 1, 0)

\* C1: the handlers of a run are invoked in the order planner, searcher,
\* analyzer, reporter, each at most once and none skipped: what has been
\* invoked is always a prefix of that order, the walk stands at the next
\* node of the order, it only stops short when the node invoked last raised
\* (a degraded search or analysis never stops or reorders it), and a run
\* that ends without an exception has invoked all four.
C1_StepOrder ==
    \A r \in Runs :
        /\ IsPrefix(invoked[r], Order)
        /\ pc[r] \in Range(Order) => pc[r] = Order[Len(invoked[r]) + 1]
        /\ pc[r] = "end" => invoked[r] = Order
        /\ (Started(r) /\ ~Halted(r) /\ state[r].search_results = <<>>
              /\ Len(invoked[r]) = 2) => pc[r] = "analyzer"
        /\ (Started(r) /\ ~Halted(r) /\ ~state[r].analysis.present
              /\ Len(invoked[r]) = 3) => pc[r] = "reporter"
        /\ Halted(r) => /\ invoked[r] # <<>>
                        /\ invoked[r][Len(invoked[r])] \in {"planner", "reporter"}
        /\ (Returned(r) /\ ~Halted(r)) => invoked[r] = Order

\* A run whose search failed and whose analysis is empty reached the end.
C1_Witness ==
    \E r \in Runs :
        /\ pc[r] = "end"
        /\ SearchFailed(r)
        /\ ~state[r].analysis.present
        /\ invoked[r] = Order

\* C2: when a handler raises, the executor halts: the failing step merges
\* nothing and puts nothing in the store; from then on no handler of the run
\* is invoked and its committed state stays what it was, the latest
\* checkpoint of its thread is changed by no step of this run, and, while no
\* other run uses the thread id, that checkpoint is the state committed
\* before the failing step.
C2_HaltKeepsCheckpoint ==
    [][\A r \in Runs :
        /\ (~Halted(r) /\ Halted(r)') =>
              /\ state'[r] = state[r]
              /\ store' = store
              /\ step'[r] = step[r]
              /\ Len(invoked'[r]) = Len(invoked[r]) + 1
        /\ Halted(r) =>
              /\ invoked'[r] = invoked[r]
              /\ state'[r] = state[r]
              /\ step'[r] = step[r]
              /\ store'[tid[r]] # store[tid[r]] =>
                    \E r2 \in Runs \ {r} : tid'[r2] = tid[r] /\ step'[r2] # step[r2]
        /\ (Halted(r)' /\ \A r2 \in Runs \ {r} : tid'[r2] # tid'[r]) =>
              /\ get(store', tid'[r]).values = state'[r]
              /\ get(store', tid'[r]).step = step'[r]
              /\ Len(invoked'[r]) = 1 => get(store', tid'[r]).node = "input"
              /\ Len(invoked'[r]) = 4 => get(store', tid'[r]).node = "analyzer"
      ]_vars

\* The reporter of a run raised after three committed steps.
C2_Witness ==
    \E r \in Runs :
        /\ pc[r] = "halted"
        /\ Len(invoked[r]) = 4
        /\ get(store, tid[r]).node = "analyzer"
        /\ get(store, tid[r]).values = state[r]

\* C3 (as claimed): when the completion fails in the report step, the result
\* of research() carries the error and the search_results and analysis that
\* were committed after the analyzer.
C3_ErrorCarriesPartialState ==
    \A r \in Runs :
        (Returned(r) /\ Halted(r) /\ Len(invoked[r]) = 4) =>
            /\ "error" \in result[r].keys
            /\ {"search_results", "analysis"} \subseteq result[r].keys
            /\ result[r].search_results = state[r].search_results
            /\ result[r].analysis = state[r].analysis

C5_ReportOrErrorWithState ==
    \A r \in Runs :
        Returned(r) =>
            \/ /\ "error" \notin result[r].keys
               /\ invoked[r] = Order
               /\ result[r].final_report = state[r].final_report
               /\ result[r].final_report # ""
            \/ /\ "error" \in result[r].keys
               /\ {"search_results", "analysis"} \subseteq result[r].keys
               /\ result[r].search_results = state[r].search_results
               /\ result[r].analysis = state[r].analysis
               /\ result[r].final_report = state[r].final_report

\* ------------------------------------------------- claims on the state model
Ids(m) == {m[i].id : i \in 1..Len(m)}

\* The messages of mp with the ids the merge into ms gave them.
LabRight == AssignIds(mp.messages, FreshId(1, 0))

\* No message of mp has the id of a message of ms or of another message of mp.
LabIdsFresh ==
    /\ Ids(LabRight) \cap Ids(ms.messages) = {}
    /\ \A i, j \in 1..Len(LabRight) : LabRight[i].id = LabRight[j].id => i = j

\* C6 (as claimed): for every state and every partial update that touches
\* only messages, the merged messages are the old ones followed by those of
\* the update: the length is the sum and the old messages are the prefix.
C6_AlwaysAppends ==
    (mphase = "once" /\ mp.keys = {"messages"}) =>
        /\ Len(mr.messages) = Len(ms.messages) + Len(mp.messages)
        /\ IsPrefix(ms.messages, mr.messages)

\* C6 (amended): messages are merged by id.  An update whose messages have
\* no id, or ids that neither the state nor another message of the update
\* has, is appended: the length is the sum and the old messages are the
\* prefix, in order; so it is for the update of every node handler (exactly
\* one entry more).  In every case no entry is removed or moved: the length
\* grows by the number of ids that are new, the old ids keep their places,
\* and an old entry changes only when the update has a message of its id.
C6_AppendsFreshIds ==
    (mphase = "once" /\ "messages" \in mp.keys) =>
        /\ LabIdsFresh =>
              /\ Len(mr.messages) = Len(ms.messages) + Len(mp.messages)
              /\ IsPrefix(ms.messages, mr.messages)
              /\ SubSeq(mr.messages, Len(ms.messages) + 1, Len(mr.messages)) = LabRight
        /\ mby # "any" =>
              /\ LabIdsFresh
              /\ Len(mr.messages) = Len(ms.messages) + 1
        /\ Len(mr.messages) =
              Len(ms.messages) + Cardinality(Ids(LabRight) \ Ids(ms.messages))
        /\ \A i \in 1..Len(ms.messages) :
              /\ mr.messages[i].id = ms.messages[i].id
              /\ mr.messages[i] # ms.messages[i] => ms.messages[i].id \in Ids(LabRight)
              /\ ms.messages[i].id \in Ids(LabRight) => mr.messages[i] \in Range(LabRight)

\* An update of two messages without id was appended to a state of two.
C6_Witness ==
    /\ mphase = "once"
    /\ mp.keys = {"messages"}
    /\ Len(ms.messages) = 2
    /\ Len(mp.messages) = 2
    /\ NoneCount(mp.messages) = 2
    /\ Len(mr.messages) = 4

\* C7 (as claimed): applying the same partial update twice changes nothing
\* more when it touches only overwrite channels, and appends its messages a
\* second time when it touches only messages.
C7_MessagesNotIdempotent ==
    /\ (mphase = "twice" /\ mp.keys \subseteq OverwriteChannels) => mr2 = mr
    /\ (mphase = "twice" /\ mp.keys = {"messages"} /\ mp.messages # <<>>) =>
          Len(mr2.messages) = Len(mr.messages) + Len(mp.messages)

\* C7 (amended): applying the same partial update twice changes nothing
\* more, whatever channels it touches: on the overwrite channels the value
\* is written again, and on messages every entry of the update is found by
\* the id it carries (its own, or the one the first merge gave it) and
\* replaces itself.  Only an update built anew appends again, and then just
\* its messages that have no id.
C7_Idempotent ==
    /\ mphase = "twice" => mr2 = mr
    /\ mphase = "copy" =>
          /\ \A c \in OverwriteChannels : mr2[c] = mr[c]
          /\ Len(mr2.messages) = Len(mr.messages) + NoneCount(mp.messages)
          /\ IsPrefix([i \in 1..Len(mr.messages) |-> mr.messages[i].id],
                      [i \in 1..Len(mr2.messages) |-> mr2.messages[i].id])

\* The update of the reporter (a message and final_report) was applied twice
\* to a state of two messages.
C7_Witness ==
    /\ mphase = "twice"
    /\ mby = "reporter"
    /\ Len(ms.messages) = 2
    /\ Len(mr.messages) = 3
    /\ mr2 = mr
    /\ mr.final_report = ""

\* C8: a merge leaves every channel that the partial update does not name
\* as it was.  In particular the planner's update leaves search_results,
\* analysis and final_report, the searcher's leaves analysis and
\* final_report, the analyzer's leaves search_results and final_report.
C8_Frame ==
    mphase = "once" =>
        /\ \A c \in Channels \ mp.keys : mr[c] = ms[c]
        /\ mby = "planner" =>
              /\ mp.keys = {"messages", "research_query"}
              /\ mr.search_results = ms.search_results
              /\ mr.analysis = ms.analysis
              /\ mr.final_report = ms.final_report
        /\ mby = "searcher" =>
              /\ mp.keys = {"messages", "search_results"}
              /\ mr.analysis = ms.analysis
              /\ mr.final_report = ms.final_report
        /\ mby = "analyzer" =>
              /\ mp.keys = {"messages", "analysis"}
              /\ mr.search_results = ms.search_results
              /\ mr.final_report = ms.final_report

\* The planner's update was merged into a state whose other channels are set.
C8_Witness ==
    /\ mphase = "once"
    /\ mby = "planner"
    /\ Len(mr.messages) = Len(ms.messages) + 1
    /\ mr.search_results = <<"r1">>
    /\ mr.analysis.present
    /\ mr.final_report = "T1"

\* ---------------------------------------------- claims on the checkpoints
\* Run r has its thread id to itself.
OwnThread(r) == \A r2 \in Runs \ {r} : tid[r2] # tid[r]

\* The checkpoints of a thread that were put after a node.
NodeCheckpoints(st, t) == {c \in list(st, t) : c.node # "input"}

\* C9 (as claimed): the store holds at most one checkpoint of a run's
\* thread: the one of the step committed last.
C9_OneCheckpointPerThread ==
    \A r \in Runs :
        (Started(r) /\ OwnThread(r)) =>
            /\ Cardinality(NodeCheckpoints(store, tid[r])) <= 1
            /\ Len(invoked[r]) >= 1 /\ ~Halted(r) =>
                  NodeCheckpoints(store, tid[r]) = {get(store, tid[r])}

\* C9 (amended): after each commit of a run (its input and each of its
\* steps) the latest checkpoint of the run's thread is the state just
\* committed, with the step number and the node of that step.  The earlier
\* checkpoints are not superseded: a put removes nothing and adds one
\* checkpoint, so a thread that one run has to itself holds one checkpoint
\* per commit of that run.
C9_LatestIsCommitted ==
    [][\A r \in Runs :
        /\ step'[r] # step[r] =>
              /\ get(store', tid'[r]).values = state'[r]
              /\ get(store', tid'[r]).step = step'[r]
              /\ get(store', tid'[r]).thread_id = tid'[r]
              /\ get(store', tid'[r]).node =
                    IF pc[r] = "idle" THEN "input" ELSE pc[r]
              /\ list(store', tid'[r]) =
                    list(store, tid'[r]) \cup {get(store', tid'[r])}
              /\ Cardinality(list(store', tid'[r])) =
                    Cardinality(list(store, tid'[r])) + 1
        /\ \A t \in ThreadIds : list(store, t) \subseteq list(store', t)
        /\ (Started(r)' /\ OwnThread(r)') =>
              /\ Cardinality(list(store', tid'[r])) = step'[r] + 1
              /\ Cardinality(NodeCheckpoints(store', tid'[r])) =
                    Len(invoked'[r]) - (IF Halted(r)' THEN 1 ELSE 0)
      ]_vars

\* A run on a thread of its own has committed all four steps.
C9_Witness ==
    \E r \in Runs :
        /\ pc[r] = "end"
        /\ OwnThread(r)
        /\ Cardinality(list(store, tid[r])) = 5
        /\ get(store, tid[r]).node = "reporter"
        /\ get(store, tid[r]).values = state[r]

\* The message ids that run r drew.
OwnIds(r) == {FreshId(r, k) : k \in 1..uid[r]}

\* C10: the checkpoints of a thread change only in a commit of a run that
\* holds that thread id, so with distinct thread ids the checkpoint of run 1
\* is changed by run 1 alone; and a run that has its thread id to itself
\* holds only state of its own: its messages are those it drew ids for, its
\* query is the one it was called with, and the latest checkpoint of its
\* thread is its own committed state.
C10_ThreadsIndependent ==
    [][/\ \A t \in ThreadIds :
            store'[t] # store[t] =>
                \E r \in Runs : tid'[r] = t /\ step'[r] # step[r]
       /\ \A r \in Runs :
            (Started(r)' /\ OwnThread(r)') =>
                /\ Ids(state'[r].messages) = OwnIds(r)'
                /\ state'[r].research_query = query'[r]
                /\ get(store', tid'[r]).values = state'[r]
                /\ \A c \in list(store', tid'[r]) :
                      Ids(c.values.messages) \subseteq OwnIds(r)'
      ]_vars

\* Two runs of the same query on distinct threads, both with committed steps.
C10_Witness ==
    \E r1, r2 \in Runs :
        /\ r1 # r2
        /\ tid[r1] # tid[r2]
        /\ query[r1] = query[r2]
        /\ pc[r1] = "end"
        /\ pc[r2] = "analyzer"
        /\ state[r1].search_results # state[r2].search_results

\* ---------------------------------------------------- claims on thread ids
\* C11 (as claimed): any two invocations of research() get distinct thread
\* ids.
C11_UniqueThreadIds ==
    \A r1, r2 \in Runs :
        (r1 # r2 /\ Started(r1) /\ Started(r2)) => tid[r1] # tid[r2]

\* ------------------------------------------------ claims on the handlers
Last(s) == s[Len(s)]

\* The executor of run r has just taken the step of node n.
Took(r, n) == pc[r] = n /\ pc'[r] # n

\* C14: the analyzer never halts the run.  On empty search_results it
\* commits an empty analysis and exactly one message (nothing to analyze);
\* otherwise it commits a non-empty analysis made of the search results and
\* the query, and exactly one message.  In both cases the walk goes on to
\* the reporter.
C14_AnalyzerNeverHalts ==
    [][\A r \in Runs :
        Took(r, "analyzer") =>
            /\ pc'[r] = "reporter"
            /\ ~Halted(r)'
            /\ invoked'[r] = Append(invoked[r], "analyzer")
            /\ Len(state'[r].messages) = Len(state[r].messages) + 1
            /\ IsPrefix(state[r].messages, state'[r].messages)
            /\ Last(state'[r].messages).type = "ai"
            /\ IF state[r].search_results = <<>>
               THEN /\ ~state'[r].analysis.present
                    /\ state'[r].analysis = EmptyAnalysis
                    /\ Last(state'[r].messages).kind = "no_results"
               ELSE /\ state'[r].analysis.present
                    /\ state'[r].analysis.topic = state[r].research_query
                    /\ state'[r].analysis.content = state[r].search_results
                    /\ Last(state'[r].messages).kind = "analysis_done"
      ]_vars

\* One run stands before the reporter with an empty analysis of a search
\* that returned nothing, the other with an analysis of two results.
C14_Witness ==
    \E r1, r2 \in Runs :
        /\ pc[r1] = "reporter"
        /\ search_calls[r1][1].ok
        /\ ~state[r1].analysis.present
        /\ Last(state[r1].messages).kind = "no_results"
        /\ pc[r2] = "reporter"
        /\ Len(state[r2].analysis.content) = 2
        /\ Last(state[r2].messages).kind = "analysis_done"

\* The title, content and url of a result dict.
TitleContentUrl(x) == CASE x = "r1" -> "r1" [] x = "r2x" -> "r2"

\* The records of the dicts of a returned list, in the order of the list.
RECURSIVE RecordsOf(_)
RecordsOf(results) ==
    IF results = <<>> THEN <<>>
    ELSE IF Head(results) = "nd" THEN RecordsOf(Tail(results))
    ELSE <<TitleContentUrl(Head(results))>> \o RecordsOf(Tail(results))

\* The search of run r returned a list, and the searcher has committed.
SearchSucceeded(r) == Len(search_calls[r]) = 1 /\ search_calls[r][1].ok

\* C15 (as claimed): after a search that succeeded, search_results is the
\* list the capability returned.
C15_ResultsAreReturnedList ==
    \A r \in Runs :
        SearchSucceeded(r) => state[r].search_results = search_calls[r][1].results

\* C15 (amended): when the search succeeds, the searcher replaces
\* search_results by the title/content/url records of the dicts in the
\* returned list, in the order of the list (an element that is not a dict is
\* left out), and appends exactly one message, whose count is the length of
\* the committed search_results; these search_results stay as they are up to
\* and in the result of a completed run.
C15_ResultsAreFormattedRecords ==
    [][\A r \in Runs :
        /\ Took(r, "searcher") =>
              /\ Len(search_calls'[r]) = 1
              /\ Len(state'[r].messages) = Len(state[r].messages) + 1
              /\ IsPrefix(state[r].messages, state'[r].messages)
              /\ search_calls'[r][1].ok =>
                    /\ Last(state'[r].messages).kind = "found"
                    /\ Last(state'[r].messages).n = Len(state'[r].search_results)
                    /\ Last(state'[r].messages).text = state[r].research_query
        /\ SearchSucceeded(r)' =>
              /\ state'[r].search_results = RecordsOf(search_calls'[r][1].results)
              /\ (Returned(r)' /\ ~Halted(r)') =>
                    result'[r].search_results = RecordsOf(search_calls'[r][1].results)
      ]_vars

\* A completed run returned the two records of the list the search returned,
\* in its order.
C15_Witness ==
    \E r \in Runs :
        /\ Returned(r)
        /\ ~Halted(r)
        /\ search_calls[r][1].ok
        /\ search_calls[r][1].results = <<"r2x", "r1">>
        /\ result[r].search_results = <<"r2", "r1">>

\* The calls of the completion that the reporter of run r made.
ReporterCalls(r) == SelectSeq(llm_calls[r], LAMBDA c : c.by = "reporter")

\* C16: the reporter calls the completion exactly once, with the prompt made
\* of the query, the top search results and the analysis; when the call
\* returns, the committed final_report is the text of the returned message,
\* which is the last entry of messages, and the result of the completed run
\* carries that text as its report.
C16_ReportIsCompletion ==
    [][\A r \in Runs :
        /\ Took(r, "reporter") =>
              /\ llm_calls'[r] = Append(llm_calls[r], Last(llm_calls'[r]))
              /\ Last(llm_calls'[r]).by = "reporter"
              /\ Last(llm_calls'[r]).query = state[r].research_query
              /\ Last(llm_calls'[r]).analysis = state[r].analysis
              /\ IsPrefix(Last(llm_calls'[r]).search_summary, state[r].search_results)
              /\ Len(ReporterCalls(r)') = 1
              /\ pc'[r] \in {"end", "halted"}
              /\ pc'[r] = "halted" => state'[r] = state[r]
              /\ pc'[r] = "end" =>
                    /\ Len(state'[r].messages) = Len(state[r].messages) + 1
                    /\ IsPrefix(state[r].messages, state'[r].messages)
                    /\ Last(state'[r].messages).kind = "llm"
                    /\ Last(state'[r].messages).text \in Texts
                    /\ state'[r].final_report = Last(state'[r].messages).text
        /\ Len(ReporterCalls(r)') <= 1
        /\ (Returned(r)' /\ ~Halted(r)') =>
              /\ Len(ReporterCalls(r)') = 1
              /\ result'[r].final_report = Last(result'[r].messages).text
              /\ result'[r].messages = state'[r].messages
      ]_vars

\* A completed run returned the text of the completion as its report.
C16_Witness ==
    \E r \in Runs :
        /\ Returned(r)
        /\ ~Halted(r)
        /\ Len(llm_calls[r]) = 2
        /\ result[r].final_report = "T1"
        /\ Last(result[r].messages).text = "T1"

\* C17 (as claimed): in every committed state of a run, research_query is
\* the query research() was called with.
C17_QueryIsCallersQuery ==
    \A r \in Runs : Started(r) => state[r].research_query = query[r]

\* The number of steps run r has committed.
CommittedSteps(r) == Len(invoked[r]) - (IF Halted(r) THEN 1 ELSE 0)

Kinds(m) == [i \in 1..Len(m) |-> m[i].kind]

\* C18 (as claimed): in every committed state of a run, messages has one
\* entry (the caller's, first) plus one per committed step; a completed run
\* ends with five: user, plan, search, analyze, report.
C18_OneMessagePerStep ==
    \A r \in Runs :
        Started(r) =>
            /\ Len(state[r].messages) = 1 + CommittedSteps(r)
            /\ state[r].messages[1].type = "human"
            /\ state[r].messages[1].text = query[r]
            /\ pc[r] = "end" =>
                  /\ Len(state[r].messages) = 5
                  /\ Kinds(state[r].messages)[2] = "llm"
                  /\ Kinds(state[r].messages)[3] \in {"found", "search_error"}
                  /\ Kinds(state[r].messages)[4] \in {"no_results", "analysis_done"}
                  /\ Kinds(state[r].messages)[5] = "llm"

\* ------------------------------------------------------ termination
\* C19: every run that has started ends: research() returns a result, the
\* final state after the reporter committed or the error of the first node
\* that raised, after at most four handler invocations.
C19_RunsTerminate ==
    \A r \in Runs :
        Started(r) ~>
            /\ Returned(r)
            /\ Len(invoked[r]) <= 4
            /\ result[r].keys # {}
            /\ \/ ~Halted(r) /\ invoked[r] = Order /\ "error" \notin result[r].keys
               \/ Halted(r) /\ "error" \in result[r].keys

\* Both runs have returned, one after all four handlers, one after the
\* planner raised.
C19_Witness ==
    \E r1, r2 \in Runs :
        /\ Returned(r1)
        /\ ~Halted(r1)
        /\ Len(invoked[r1]) = 4
        /\ Returned(r2)
        /\ Halted(r2)
        /\ Len(invoked[r2]) = 1

====
